---------------------------- MODULE Spec2Model ----------------------------
(***************************************************************************)
(* testy: a fluent client that fires synthetic HTTP requests at an         *)
(* in-process http.Handler (src/testy.go), with the example handler of     *)
(* src/examples/echo.go.                                                   *)
(*                                                                         *)
(* Strings and byte slices are sequences of one-character strings, so that *)
(* header canonicalisation, query escaping and parsing, and JSON decoding  *)
(* are computed character by character as the libraries compute them.      *)
(* A nil-able Go value (c.Body, c.Result, a returned *Response) is a set   *)
(* with at most one element: {} is nil.                                    *)
(***************************************************************************)
EXTENDS Integers, Sequences, FiniteSets, TLC

(***************************************************************************)
(* Characters: printable ASCII, codes 32..126 (code 96, the grave accent,  *)
(* is spelled out: no string of the model uses it).                        *)
(***************************************************************************)
Ascii ==
    << " ", "!", "\"", "#", "$", "%", "&", "'", "(", ")", "*", "+", ",", "-", ".", "/",
       "0", "1", "2", "3", "4", "5", "6", "7", "8", "9", ":", ";", "<", "=", ">", "?",
       "@", "A", "B", "C", "D", "E", "F", "G", "H", "I", "J", "K", "L", "M", "N", "O",
       "P", "Q", "R", "S", "T", "U", "V", "W", "X", "Y", "Z", "[", "\\", "]", "^", "_",
       "grave", "a", "b", "c", "d", "e", "f", "g", "h", "i", "j", "k", "l", "m", "n", "o",
       "p", "q", "r", "s", "t", "u", "v", "w", "x", "y", "z", "{", "|", "}", "~" >>

\* the code of each character
Code == [c \in {Ascii[i] : i \in 1..Len(Ascii)} |-> 31 + (CHOOSE i \in 1..Len(Ascii) : Ascii[i] = c)]

Ord(c) == Code[c]

Chr(n) == Ascii[n - 31]

IsDigit(c) == Ord(c) \in 48..57

IsUpper(c) == Ord(c) \in 65..90

IsLower(c) == Ord(c) \in 97..122

IsAlnum(c) == IsDigit(c) \/ IsUpper(c) \/ IsLower(c)

\* The empty Go map (url.Values{}, http.Header{}).
EmptyMap == [k \in {} |-> <<>>]

\* m[k] = vs
MapPut(m, k, vs) == [x \in DOMAIN m \cup {k} |-> IF x = k THEN vs ELSE m[x]]

\* m[k], the zero value (a nil slice) for a missing key
MapGet(m, k) == IF k \in DOMAIN m THEN m[k] ELSE <<>>

\* s[i:] (i counted from 1)
From(s, i) == SubSeq(s, i, Len(s))

\* strings.Index(s, c) counted from 1; 0 when c does not occur
IndexOf(s, c) ==
    IF \E i \in 1..Len(s) : s[i] = c
    THEN CHOOSE i \in 1..Len(s) : s[i] = c /\ \A j \in 1..(i - 1) : s[j] # c
    ELSE 0

\* s < t, byte-wise (the order sort.Strings uses)
RECURSIVE StrLess(_, _)
StrLess(s, t) ==
    IF t = <<>> THEN FALSE
    ELSE IF s = <<>> THEN TRUE
    ELSE IF Head(s) = Head(t) THEN StrLess(Tail(s), Tail(t))
    ELSE Ord(Head(s)) < Ord(Head(t))

(***************************************************************************)
(* net/textproto: header keys.                                             *)
(***************************************************************************)
\* validHeaderFieldByte: the token characters of RFC 7230
IsTokenChar(c) ==
    IsAlnum(c) \/ c \in {"!", "#", "$", "%", "&", "'", "*", "+", "-", ".", "^", "_", "|", "~"}

RECURSIVE CanonLoop(_, _)
CanonLoop(s, upper) ==
    IF s = <<>> THEN <<>>
    ELSE LET c == Head(s)
             d == IF upper /\ IsLower(c) THEN Chr(Ord(c) - 32)
                  ELSE IF ~upper /\ IsUpper(c) THEN Chr(Ord(c) + 32)
                  ELSE c
         IN  <<d>> \o CanonLoop(Tail(s), d = "-")

\* textproto.CanonicalMIMEHeaderKey: a key holding a non-token byte is left as it is
CanonicalMIMEHeaderKey(s) ==
    IF \E i \in 1..Len(s) : ~IsTokenChar(s[i]) THEN s ELSE CanonLoop(s, TRUE)

\* Mutant of HeaderSet: the value is appended (http.Header.Add) instead of replacing.
HeaderSetAppending(h, key, value) ==
    LET k == CanonicalMIMEHeaderKey(key) IN MapPut(h, k, Append(MapGet(h, k), value))

\* http.Header.Set: one value under the canonical key
HeaderSet(h, key, value) == MapPut(h, CanonicalMIMEHeaderKey(key), <<value>>)

\* http.Header.Get: the first value under the canonical key, "" when there is none
HeaderGet(h, key) ==
    LET vs == MapGet(h, CanonicalMIMEHeaderKey(key)) IN IF vs = <<>> THEN <<>> ELSE vs[1]

(***************************************************************************)
(* net/url: escaping, url.Values, ParseQuery and Encode.                   *)
(***************************************************************************)
UpperHex == << "0", "1", "2", "3", "4", "5", "6", "7", "8", "9", "A", "B", "C", "D", "E", "F" >>

\* ishex
IsHex(c) == IsDigit(c) \/ Ord(c) \in 65..70 \/ Ord(c) \in 97..102

\* unhex
UnHex(c) ==
    IF IsDigit(c) THEN Ord(c) - 48
    ELSE IF Ord(c) \in 97..102 THEN Ord(c) - 97 + 10
    ELSE Ord(c) - 65 + 10

\* shouldEscape(c, encodeQueryComponent): only the unreserved characters stay
ShouldEscape(c) == ~(IsAlnum(c) \/ c \in {"-", "_", ".", "~"})

\* url.QueryEscape
RECURSIVE QueryEscape(_)
QueryEscape(s) ==
    IF s = <<>> THEN <<>>
    ELSE LET c == Head(s)
             e == IF c = " " THEN <<"+">>
                  ELSE IF ShouldEscape(c)
                       THEN <<"%", UpperHex[(Ord(c) \div 16) + 1], UpperHex[(Ord(c) % 16) + 1]>>
                  ELSE <<c>>
         IN  e \o QueryEscape(Tail(s))

\* the first pass of url.unescape: a "%" not followed by two hex digits is an EscapeError
RECURSIVE EscapeOK(_)
EscapeOK(s) ==
    IF s = <<>> THEN TRUE
    ELSE IF Head(s) = "%"
         THEN Len(s) >= 3 /\ IsHex(s[2]) /\ IsHex(s[3]) /\ EscapeOK(From(s, 4))
    ELSE EscapeOK(Tail(s))

\* the second pass of url.unescape (mode encodeQueryComponent), on a string EscapeOK accepts
RECURSIVE Unescaped(_)
Unescaped(s) ==
    IF s = <<>> THEN <<>>
    ELSE IF Head(s) = "%"
         THEN <<Chr(UnHex(s[2]) * 16 + UnHex(s[3]))>> \o Unescaped(From(s, 4))
    ELSE IF Head(s) = "+" THEN <<" ">> \o Unescaped(Tail(s))
    ELSE <<Head(s)>> \o Unescaped(Tail(s))

\* url.Values.Add: m[key] = append(m[key], value)
ValuesAdd(m, key, value) == MapPut(m, key, Append(MapGet(m, key), value))

\* Mutant of ValuesSet: the value is appended instead of replacing.
ValuesSetAppending(m, key, value) == MapPut(m, key, Append(MapGet(m, key), value))

\* url.Values.Set: m[key] = []string{value}
ValuesSet(m, key, value) == MapPut(m, key, <<value>>)

\* url.ParseQuery's loop: each "&"-separated piece is cut at its first "=", both halves are
\* unescaped, and the pair is appended; a piece that does not unescape is skipped and the
\* error kept. The map holds every pair that did parse, error or not.
RECURSIVE ParseLoop(_, _, _)
ParseLoop(query, m, err) ==
    IF query = <<>> THEN [values |-> m, err |-> err]
    ELSE LET amp   == IndexOf(query, "&")
             piece == IF amp = 0 THEN query ELSE SubSeq(query, 1, amp - 1)
             rest  == IF amp = 0 THEN <<>> ELSE From(query, amp + 1)
             eq    == IndexOf(piece, "=")
             key   == IF eq = 0 THEN piece ELSE SubSeq(piece, 1, eq - 1)
             value == IF eq = 0 THEN <<>> ELSE From(piece, eq + 1)
         IN  IF piece = <<>> THEN ParseLoop(rest, m, err)
             ELSE IF ~EscapeOK(key) \/ ~EscapeOK(value) THEN ParseLoop(rest, m, TRUE)
             ELSE ParseLoop(rest, ValuesAdd(m, Unescaped(key), Unescaped(value)), err)

\* url.ParseQuery
ParseQuery(query) == ParseLoop(query, EmptyMap, FALSE)

\* strings.TrimSpace, for the space character
RECURSIVE TrimSpace(_)
TrimSpace(s) ==
    IF s = <<>> THEN s
    ELSE IF Head(s) = " " THEN TrimSpace(Tail(s))
    ELSE IF s[Len(s)] = " " THEN TrimSpace(SubSeq(s, 1, Len(s) - 1))
    ELSE s

\* the "k=v1&k=v2" run of one key in Values.Encode
RECURSIVE EncodeKey(_, _)
EncodeKey(keyEscaped, vs) ==
    IF vs = <<>> THEN <<>>
    ELSE keyEscaped \o <<"=">> \o QueryEscape(Head(vs))
         \o (IF Tail(vs) = <<>> THEN <<>> ELSE <<"&">> \o EncodeKey(keyEscaped, Tail(vs)))

\* the keys of m in sort.Strings order, the least first
RECURSIVE SortedKeys(_)
SortedKeys(ks) ==
    IF ks = {} THEN <<>>
    ELSE LET least == CHOOSE k \in ks : \A o \in ks \ {k} : StrLess(k, o)
         IN  <<least>> \o SortedKeys(ks \ {least})

RECURSIVE EncodeLoop(_, _, _)
EncodeLoop(m, keys, buf) ==
    IF keys = <<>> THEN buf
    ELSE LET run == EncodeKey(QueryEscape(Head(keys)), m[Head(keys)])
             sep == IF buf # <<>> /\ run # <<>> THEN <<"&">> ELSE <<>>
         IN  EncodeLoop(m, Tail(keys), buf \o sep \o run)

\* url.Values.Encode: "URL encoded" form sorted by key
Encode(m) == EncodeLoop(m, SortedKeys(DOMAIN m), <<>>)

(***************************************************************************)
(* encoding/json, for the bodies of the model: an object whose members are *)
(* strings without escapes, integers, true, false or null, written without *)
(* white space; anything else the model's handlers answer is not JSON.     *)
(* A decoded object is a map from member name to the member's token.       *)
(***************************************************************************)
\* whether t occurs in s at position i
StartsAt(s, i, t) == i + Len(t) - 1 <= Len(s) /\ SubSeq(s, i, i + Len(t) - 1) = t

\* the index of the quote closing the string that opens at s[i]; 0 when s[i] opens no string
JStringEnd(s, i) ==
    IF i > Len(s) \/ s[i] # "\"" THEN 0
    ELSE IF \E j \in (i + 1)..Len(s) : s[j] = "\""
         THEN LET j == CHOOSE j \in (i + 1)..Len(s) :
                         s[j] = "\"" /\ \A k \in (i + 1)..(j - 1) : s[k] # "\""
              IN  IF \E k \in (i + 1)..(j - 1) : s[k] = "\\" THEN 0 ELSE j
    ELSE 0

\* the index of the last digit of the run of digits that starts at s[i]
RECURSIVE JDigitsEnd(_, _)
JDigitsEnd(s, i) == IF i + 1 <= Len(s) /\ IsDigit(s[i + 1]) THEN JDigitsEnd(s, i + 1) ELSE i

\* the index of the last character of the value that starts at s[i]; 0 when none does
JValueEnd(s, i) ==
    IF i > Len(s) THEN 0
    ELSE IF StartsAt(s, i, <<"t", "r", "u", "e">>) THEN i + 3
    ELSE IF StartsAt(s, i, <<"f", "a", "l", "s", "e">>) THEN i + 4
    ELSE IF StartsAt(s, i, <<"n", "u", "l", "l">>) THEN i + 3
    ELSE IF IsDigit(s[i]) THEN JDigitsEnd(s, i)
    ELSE JStringEnd(s, i)

\* the members of an object from s[i] on; a later member of the same name wins
RECURSIVE JMembers(_, _, _)
JMembers(s, i, obj) ==
    LET ke == JStringEnd(s, i)
        ve == IF ke = 0 \/ ke + 1 > Len(s) \/ s[ke + 1] # ":" THEN 0 ELSE JValueEnd(s, ke + 2)
        o2 == MapPut(obj, SubSeq(s, i + 1, ke - 1), SubSeq(s, ke + 2, ve))
    IN  IF ve = 0 \/ ve + 1 > Len(s) THEN [err |-> TRUE, obj |-> EmptyMap]
        ELSE IF s[ve + 1] = "," THEN JMembers(s, ve + 2, o2)
        ELSE IF s[ve + 1] = "}" /\ ve + 1 = Len(s) THEN [err |-> FALSE, obj |-> o2]
        ELSE [err |-> TRUE, obj |-> EmptyMap]

\* the JSON object a body holds, or err
JDecode(s) ==
    IF s = <<"{", "}">> THEN [err |-> FALSE, obj |-> EmptyMap]
    ELSE IF Len(s) >= 2 /\ s[1] = "{" THEN JMembers(s, 2, EmptyMap)
    ELSE [err |-> TRUE, obj |-> EmptyMap]

\* The decode targets a test registers: a pointer to a map[string]interface{} variable
\* and a pointer to an interface{} variable. A target's contents are {} (the variable's
\* zero value) or {obj}.
TargetKinds == {"map", "iface"}

\* json.Unmarshal(data, v): invalid data is an error and leaves the target untouched; an
\* object decoded into a non-nil map is stored member by member, keeping the entries the
\* data does not name; decoded into an interface{} it replaces the value held.
Unmarshal(data, kind, contents) ==
    LET d == JDecode(data)
    IN  IF d.err THEN [err |-> TRUE, contents |-> contents]
        ELSE IF kind = "map" /\ contents # {}
             THEN LET old == CHOOSE o \in contents : TRUE
                  IN  [err |-> FALSE,
                       contents |-> {[k \in DOMAIN old \cup DOMAIN d.obj |->
                                        IF k \in DOMAIN d.obj THEN d.obj[k] ELSE old[k]]}]
        ELSE [err |-> FALSE, contents |-> {d.obj}]

(***************************************************************************)
(* The strings the model's calls are made with.                            *)
(***************************************************************************)
XUserName == <<"X", "-", "U", "s", "e", "r", "N", "a", "m", "e">>

XUserNameLower == <<"x", "-", "u", "s", "e", "r", "n", "a", "m", "e">>

Accept == <<"A", "c", "c", "e", "p", "t">>

Bob == <<"b", "o", "b">>

Al == <<"a", "l">>

HelloPath == <<"/", "h", "e", "l", "l", "o">>

HelloPathWithQuery == HelloPath \o <<"?", "x", "=", "1">>

HelloWorld == <<"h", "e", "l", "l", "o", ",", " ", "w", "o", "r", "l", "d", "!">>

HelloBob == <<"h", "e", "l", "l", "o", ",", " ", "b", "o", "b", "!">>

MethodGet == <<"G", "E", "T">>

MethodPost == <<"P", "O", "S", "T">>

MethodPut == <<"P", "U", "T">>

MethodDelete == <<"D", "E", "L", "E", "T", "E">>

MethodPatch == <<"P", "A", "T", "C", "H">>

KeyK == <<"k">>

KeyAmp == <<"a", "&">>

Val1 == <<"1">>

ValXY == <<"x", " ", "y">>

JsonOkTrue == <<"{", "\"", "o", "k", "\"", ":", "t", "r", "u", "e", "}">>

JsonN1 == <<"{", "\"", "n", "\"", ":", "1", "}">>

NotJson == <<"o", "o", "p", "s">>

HeaderNames == {XUserName, XUserNameLower, Accept}

HeaderValues == {Bob, Al}

\* the map[string]string arguments of SetHeaders; the second holds two spellings of one header
HeaderMaps ==
    { (XUserName :> Bob) @@ (Accept :> Al),
      (XUserName :> Bob) @@ (XUserNameLower :> Al) }

QueryKeys == {KeyK, KeyAmp}

QueryValues == {Val1, ValXY}

\* the map[string]string arguments of SetQueryParams
ParamMaps == { (KeyK :> Val1) @@ (KeyAmp :> ValXY), (KeyK :> ValXY) }

\* the url.Values arguments of SetQueryParamsFromValues
ValuesArgs ==
    { (KeyK :> <<Val1, Val1>>),
      (KeyK :> <<ValXY>>) @@ (KeyAmp :> <<Val1>>),
      (KeyAmp :> <<ValXY, Val1>>) }

\* the arguments of SetQueryString; the last three do not parse
QueryStrings ==
    { <<"k", "=", "1">>,
      <<" ", "k", "=", "x", "+", "y", "&", "k", "=", "1", " ">>,
      <<"a", "%", "2", "6", "=", "x", "%", "2", "0", "y">>,
      <<"k", "=", "%", "z", "z">>,
      <<"k", "=", "1", "&", "a", "%", "2", "6", "=", "%">>,
      <<"%", "2">> }

\* What a test may hand to SetBody: raw bytes (nil or not), a text, or a structured value,
\* which is named by its JSON encoding.
BodyArgs ==
    [kind : {"bytes"}, data : {{}, {JsonOkTrue}, {JsonN1}, {NotJson}}]
    \cup [kind : {"text"}, data : {{NotJson}}]
    \cup [kind : {"value"}, data : {{JsonOkTrue}}]

Paths == {HelloPath, HelloPathWithQuery}

\* The handlers a Client is bound to: EchoHandler of the examples, and a handler that
\* answers 200 with the body of the request it was given.
Handlers == {"echo", "reflect"}

\* the most pending entries (header keys, query values, a body, a target) a Client holds
MaxPending == 3

(***************************************************************************)
(* The Client (type Client), what the latest call built and returned, and  *)
(* history variables.                                                      *)
(***************************************************************************)
VARIABLES
    handler,     \* Client.handler, fixed by New
    QueryParam,  \* Client.QueryParam
    FormData,    \* Client.FormData
    Header,      \* Client.Header
    Body,        \* Client.Body: {} is nil
    Result,      \* Client.Result: {} is nil, else the kind of the variable pointed to
    Error,       \* Client.Error: {} is nil
    target,      \* the contents of the variable Client.Result points to
    request,     \* the request the latest call handed to the handler; {} when it was no Execute
    response,    \* the *Response the latest call returned; {} when it returned none
    panicked,    \* a call has panicked: the test is over
    lastArgs,    \* history: the string arguments of the latest Execute or SetQueryString
    lastHdr,     \* history: per header name, letter case ignored, the value it was last set to
    lastBody,    \* history: the argument of the latest SetBody
    replaced     \* history: when the latest call was a SetQueryParam(s), how many values it
                 \* found under each of its keys; else {}

pending == <<QueryParam, FormData, Header, Body, Result, Error>>

history == <<lastArgs, lastHdr, lastBody, replaced>>

vars == <<handler, pending, target, request, response, panicked, history>>

\* New
Init ==
    /\ handler \in Handlers
    /\ QueryParam = EmptyMap
    /\ FormData = EmptyMap
    /\ Header = EmptyMap
    /\ Body = {}
    /\ Result = {}
    /\ Error = {}
    /\ target = {}
    /\ request = {}
    /\ response = {}
    /\ panicked = FALSE
    /\ lastArgs = <<>>
    /\ lastHdr = EmptyMap
    /\ lastBody = {}
    /\ replaced = {}

RECURSIVE SumLen(_, _)
SumLen(m, ks) ==
    IF ks = {} THEN 0
    ELSE LET k == CHOOSE k \in ks : TRUE IN Len(m[k]) + SumLen(m, ks \ {k})

\* how many entries a pending state holds
PendingSize(h, q, b, r) ==
    Cardinality(DOMAIN h) + SumLen(q, DOMAIN q) + Cardinality(b) + Cardinality(r)

Fits(h, q, b, r) == PendingSize(h, q, b, r) <= MaxPending

\* a configuration call returns the Client: no request was built, no Response returned
Configured(args) ==
    /\ request' = {}
    /\ response' = {}
    /\ lastArgs' = args
    /\ UNCHANGED <<handler, FormData, Error, panicked>>

\* the header name with its letters in lower case: header names are case-insensitive
RECURSIVE LowerCase(_)
LowerCase(s) ==
    IF s = <<>> THEN <<>>
    ELSE <<IF IsUpper(Head(s)) THEN Chr(Ord(Head(s)) + 32) ELSE Head(s)>> \o LowerCase(Tail(s))

\* SetHeader
SetHeader(header, value) ==
    /\ ~panicked
    /\ Header' = HeaderSet(Header, header, value)
    /\ Fits(Header', QueryParam, Body, Result)
    /\ lastHdr' = MapPut(lastHdr, LowerCase(header), value)
    /\ Configured(<<>>)
    /\ UNCHANGED <<QueryParam, Body, Result, target, lastBody>>
    /\ replaced' = {}

\* the orders in which a range loop may visit the entries of a Go map
Orders(m) ==
    {o \in [1..Cardinality(DOMAIN m) -> DOMAIN m] : \A i, j \in DOMAIN o : i # j => o[i] # o[j]}

\* the loop of SetHeaders, visiting the entries in the order ord
RECURSIVE SetHeaderEach(_, _, _)
SetHeaderEach(h, headers, ord) ==
    IF ord = <<>> THEN h
    ELSE SetHeaderEach(HeaderSet(h, Head(ord), headers[Head(ord)]), headers, Tail(ord))

RECURSIVE NoteHeaderEach(_, _, _)
NoteHeaderEach(l, headers, ord) ==
    IF ord = <<>> THEN l
    ELSE NoteHeaderEach(MapPut(l, LowerCase(Head(ord)), headers[Head(ord)]), headers, Tail(ord))

\* SetHeaders
SetHeaders(headers) ==
    /\ ~panicked
    /\ \E ord \in Orders(headers) :
          /\ Header' = SetHeaderEach(Header, headers, ord)
          /\ lastHdr' = NoteHeaderEach(lastHdr, headers, ord)
    /\ Fits(Header', QueryParam, Body, Result)
    /\ Configured(<<>>)
    /\ UNCHANGED <<QueryParam, Body, Result, target, lastBody>>
    /\ replaced' = {}

\* SetQueryParam
SetQueryParam(param, value) ==
    /\ ~panicked
    /\ QueryParam' = ValuesSet(QueryParam, param, value)
    /\ Fits(Header, QueryParam', Body, Result)
    /\ replaced' = {Len(MapGet(QueryParam, param))}
    /\ Configured(<<>>)
    /\ UNCHANGED <<Header, Body, Result, target, lastHdr, lastBody>>

\* the loop of SetQueryParams; the keys of a map differ, so the order does not matter
RECURSIVE SetQueryParamEach(_, _)
SetQueryParamEach(q, params) ==
    IF DOMAIN params = {} THEN q
    ELSE LET p == CHOOSE p \in DOMAIN params : TRUE
         IN  SetQueryParamEach(ValuesSet(q, p, params[p]),
                               [x \in DOMAIN params \ {p} |-> params[x]])

\* SetQueryParams
SetQueryParams(params) ==
    /\ ~panicked
    /\ QueryParam' = SetQueryParamEach(QueryParam, params)
    /\ Fits(Header, QueryParam', Body, Result)
    /\ replaced' = {Len(MapGet(QueryParam, k)) : k \in DOMAIN params}
    /\ Configured(<<>>)
    /\ UNCHANGED <<Header, Body, Result, target, lastHdr, lastBody>>

\* Mutant of AddEach: each value replaces the ones before it (Set instead of Add).
RECURSIVE AddEachReplacing(_, _, _)
AddEachReplacing(q, p, v) ==
    IF v = <<>> THEN q ELSE AddEachReplacing(ValuesSet(q, p, Head(v)), p, Tail(v))

\* the inner loop of SetQueryParamsFromValues and SetQueryString
RECURSIVE AddEach(_, _, _)
AddEach(q, p, v) ==
    IF v = <<>> THEN q ELSE AddEach(ValuesAdd(q, p, Head(v)), p, Tail(v))

\* the outer loop of SetQueryParamsFromValues and SetQueryString
RECURSIVE AddParams(_, _)
AddParams(q, params) ==
    IF DOMAIN params = {} THEN q
    ELSE LET p == CHOOSE p \in DOMAIN params : TRUE
         IN  AddParams(AddEach(q, p, params[p]), [x \in DOMAIN params \ {p} |-> params[x]])

\* SetQueryParamsFromValues
SetQueryParamsFromValues(params) ==
    /\ ~panicked
    /\ QueryParam' = AddParams(QueryParam, params)
    /\ Fits(Header, QueryParam', Body, Result)
    /\ Configured(<<>>)
    /\ UNCHANGED <<Header, Body, Result, target, lastHdr, lastBody>>
    /\ replaced' = {}

\* Mutant of QueryStringApplied: the pairs that parsed are added though err is set.
QueryStringAppliedDespiteError(q, query) ==
    AddParams(q, ParseQuery(TrimSpace(query)).values)

\* what SetQueryString leaves in c.QueryParam
QueryStringApplied(q, query) ==
    LET parsed == ParseQuery(TrimSpace(query))
    IN  IF ~parsed.err THEN AddParams(q, parsed.values) ELSE q

\* SetQueryString
SetQueryString(query) ==
    /\ ~panicked
    /\ QueryParam' = QueryStringApplied(QueryParam, query)
    /\ Fits(Header, QueryParam', Body, Result)
    /\ Configured(<<query>>)
    /\ UNCHANGED <<Header, Body, Result, target, lastHdr, lastBody>>
    /\ replaced' = {}

\* SetBody(body []byte): a call with a text or a structured value does not compile
SetBody(body) ==
    /\ ~panicked
    /\ body.kind = "bytes"
    /\ Body' = body.data
    /\ Fits(Header, QueryParam, Body', Result)
    /\ lastBody' = body.data
    /\ Configured(<<>>)
    /\ UNCHANGED <<Header, QueryParam, Result, target, lastHdr>>
    /\ replaced' = {}

\* SetResult, with a pointer to a fresh variable of the given kind ({} for a nil result)
SetResult(result) ==
    /\ ~panicked
    /\ Result' = result
    /\ target' = {}
    /\ Fits(Header, QueryParam, Body, Result')
    /\ Configured(<<>>)
    /\ UNCHANGED <<Header, QueryParam, Body, lastHdr, lastBody>>
    /\ replaced' = {}

(***************************************************************************)
(* Execute and the handlers.                                               *)
(***************************************************************************)
\* Mutant of EffectiveURL: a url that holds a "?" already gets the pending set after "&".
EffectiveURLMerging(url, q) ==
    IF Cardinality(DOMAIN q) > 0
    THEN url \o (IF IndexOf(url, "?") = 0 THEN <<"?">> ELSE <<"&">>) \o Encode(q)
    ELSE url

\* the URL Execute requests: the pending query set, if any, is appended after a "?"
EffectiveURL(url, q) ==
    IF Cardinality(DOMAIN q) > 0 THEN url \o <<"?">> \o Encode(q) ELSE url

\* Mutant of NewRequest: the reader over c.Body is never handed over.
NewRequestWithoutBody(method, url, body, header) ==
    [method |-> method, url |-> url, body |-> {}, header |-> header]

\* http.NewRequest and the assignment of its Header. The request's header map IS the
\* Client's (no copy is made); the handlers of the model only read it.
NewRequest(method, url, body, header) ==
    [method |-> method, url |-> url, body |-> body, header |-> header]

\* the path of a request's URL: what precedes its first "?"
URLPath(url) ==
    IF IndexOf(url, "?") = 0 THEN url ELSE SubSeq(url, 1, IndexOf(url, "?") - 1)

\* the route of EchoHandler
EchoRoute(req) == req.method = MethodGet /\ URLPath(req.url) = HelloPath

\* Mutant of EchoHello: the name is not defaulted to "world".
EchoHelloNoDefault(req) ==
    [code |-> 200,
     body |-> <<"h", "e", "l", "l", "o", ",", " ">> \o HeaderGet(req.header, XUserName) \o <<"!">>]

\* the GET /hello route of EchoHandler
EchoHello(req) ==
    LET got  == HeaderGet(req.header, XUserName)
        name == IF got = <<>> THEN <<"w", "o", "r", "l", "d">> ELSE got
    IN  [code |-> 200, body |-> <<"h", "e", "l", "l", "o", ",", " ">> \o name \o <<"!">>]

\* a handler that writes the request's body back (nothing for a request without one)
Reflect(req) ==
    [code |-> 200, body |-> IF req.body = {} THEN <<>> ELSE CHOOSE b \in req.body : TRUE]

\* c.handler.ServeHTTP(recorder, request): what the recorder holds afterwards
ServeHTTP(h, req) == IF h = "echo" THEN EchoHello(req) ELSE Reflect(req)

\* The requests the model makes: of EchoHandler only its one route is asked for (what the
\* echo router answers elsewhere is not part of this repository).
Routed(h, req) == h = "echo" => EchoRoute(req)

\* http.Response.Status of a recorded 200
StatusText(code) == <<"2", "0", "0", " ", "O", "K">>

\* ioutil.ReadAll of the recorder's body, a bytes.Buffer: it does not fail
ReadAll(b) == [data |-> b, err |-> FALSE]

\* Mutant of Faulted: the error of json.Unmarshal is dropped.
FaultedOnReadOnly(read, decoded) == read.err

\* whether Execute panics: the body could not be read, or not decoded into the target
Faulted(read, decoded) == read.err \/ decoded.err

\* Mutant of Decoded: the registered target is never decoded into.
DecodedNever(data, result, contents) == [err |-> FALSE, contents |-> contents]

\* the decoding of the body into the target c.Result points to, if there is one
Decoded(data, result, contents) ==
    IF result = {} THEN [err |-> FALSE, contents |-> contents]
    ELSE Unmarshal(data, CHOOSE k \in result : TRUE, contents)

\* Execute, but for what it leaves alone
Fire(method, url) ==
    LET req      == NewRequest(method, EffectiveURL(url, QueryParam), Body, Header)
        recorder == ServeHTTP(handler, req)
        read     == ReadAll(recorder.body)
        resp     == [Status     |-> StatusText(recorder.code),
                     StatusCode |-> recorder.code,
                     Body       |-> read.data,
                     Size       |-> Len(read.data)]
        decoded  == Decoded(resp.Body, Result, target)
    IN  /\ ~panicked
        /\ Routed(handler, req)
        /\ request' = {req}
        /\ lastArgs' = <<method, url>>
        /\ replaced' = {}
        /\ IF Faulted(read, decoded)
           THEN /\ panicked' = TRUE
                /\ response' = {}
                /\ target' = target
           ELSE /\ panicked' = FALSE
                /\ response' = {resp}
                /\ target' = decoded.contents
        /\ UNCHANGED <<handler, lastHdr, lastBody>>

\* Mutant of Execute: the body is cleared once the request has been fired.
ExecuteThenClearBody(method, url) ==
    Fire(method, url) /\ Body' = {} /\ UNCHANGED <<QueryParam, FormData, Header, Result, Error>>

\* Execute
Execute(method, url) == Fire(method, url) /\ UNCHANGED pending

\* Get
Get(url) == Execute(MethodGet, url)

\* Patch
Patch(url) == Execute(MethodPatch, url)

\* Post
Post(url) == Execute(MethodPost, url)

\* Delete
Delete(url) == Execute(MethodDelete, url)

\* Response.String
String(r) == r.Body

Next ==
    \/ \E n \in HeaderNames, v \in HeaderValues : SetHeader(n, v)
    \/ \E m \in HeaderMaps : SetHeaders(m)
    \/ \E k \in QueryKeys, v \in QueryValues : SetQueryParam(k, v)
    \/ \E m \in ParamMaps : SetQueryParams(m)
    \/ \E m \in ValuesArgs : SetQueryParamsFromValues(m)
    \/ \E q \in QueryStrings : SetQueryString(q)
    \/ \E b \in BodyArgs : SetBody(b)
    \/ \E r \in {{}} \cup {{k} : k \in TargetKinds} : SetResult(r)
    \/ \E u \in Paths : Get(u)
    \/ Patch(HelloPath)
    \/ Post(HelloPath)
    \/ Delete(HelloPath)

Spec == Init /\ [][Next]_vars

(***************************************************************************)
(* Properties.                                                             *)
(***************************************************************************)
\* the values a header map holds for a name, whatever the letter case of its keys
ValuesFor(h, lower) == {h[k] : k \in {x \in DOMAIN h : LowerCase(x) = lower}}

\* C1: the request Execute hands to the handler carries, for every header name that was
\* set, exactly one value, the one it was last set to; and it carries no other header.
C1_LastSetHeaderWins ==
    \A req \in request :
        /\ \A n \in DOMAIN lastHdr :
              /\ ValuesFor(req.header, n) = {<<lastHdr[n]>>}
              /\ Cardinality({k \in DOMAIN req.header : LowerCase(k) = n}) = 1
              /\ HeaderGet(req.header, n) = lastHdr[n]
        /\ \A k \in DOMAIN req.header : LowerCase(k) \in DOMAIN lastHdr

\* an Execute handed the handler a request with X-UserName and Accept set, X-UserName
\* last to "al"
C1_Witness ==
    /\ request # {}
    /\ DOMAIN lastHdr = {XUserNameLower, LowerCase(Accept)}
    /\ lastHdr[XUserNameLower] = Al

\* nothing has been configured on the Client
Fresh == Header = EmptyMap /\ QueryParam = EmptyMap /\ Body = {} /\ Result = {}

\* C2: against EchoHandler, Get("/hello") on a fresh Client returns 200 "hello, world!",
\* and after SetHeader("X-UserName", "bob") alone it returns 200 "hello, bob!".
C2_EchoScenario ==
    (/\ handler = "echo"
     /\ request # {}
     /\ lastArgs = <<MethodGet, HelloPath>>
     /\ QueryParam = EmptyMap /\ Body = {} /\ Result = {})
    => /\ Fresh =>
            /\ ~panicked
            /\ \E r \in response : r.StatusCode = 200 /\ String(r) = HelloWorld
       /\ lastHdr = (XUserNameLower :> Bob) =>
            /\ ~panicked
            /\ \E r \in response : r.StatusCode = 200 /\ String(r) = HelloBob

\* Get("/hello") has answered "hello, bob!" after SetHeader("X-UserName", "bob")
C2_Witness ==
    /\ handler = "echo"
    /\ lastArgs = <<MethodGet, HelloPath>>
    /\ lastHdr = (XUserNameLower :> Bob)
    /\ \E r \in response : String(r) = HelloBob

\* what Execute appended to the url it was called with
Appended(req, args) == From(req.url, Len(args[2]) + 1)

\* C3: an execution leaves the pending state (headers, query parameters, body, decode
\* target) as it was, and an execution that follows another with no configuration call
\* between them hands the handler the same headers, query string and body.
C3_ExecuteKeepsPending ==
    [][request' # {} =>
          /\ pending' = pending
          /\ \A r1 \in request, r2 \in request' :
                /\ r2.header = r1.header
                /\ r2.body = r1.body
                /\ Appended(r2, lastArgs') = Appended(r1, lastArgs)]_vars

\* an Execute has returned on a Client with headers, query parameters and a body pending
C3_Witness ==
    /\ response # {}
    /\ Header # EmptyMap /\ QueryParam # EmptyMap /\ Body # {}
    /\ \A req \in request : req.header = Header /\ req.body = Body

\* C4: SetQueryParam(k, v) leaves exactly the one value v under k, whatever k held, and
\* the values of every other key as they were; SetQueryParams does so for each entry.
C4_SetQueryParamReplaces ==
    [][/\ \A k \in QueryKeys, v \in QueryValues :
             SetQueryParam(k, v) =>
                 /\ DOMAIN QueryParam' = DOMAIN QueryParam \cup {k}
                 /\ QueryParam'[k] = <<v>>
                 /\ \A o \in DOMAIN QueryParam \ {k} : QueryParam'[o] = QueryParam[o]
       /\ \A m \in ParamMaps :
             SetQueryParams(m) =>
                 /\ DOMAIN QueryParam' = DOMAIN QueryParam \cup DOMAIN m
                 /\ \A k \in DOMAIN m : QueryParam'[k] = <<m[k]>>
                 /\ \A o \in DOMAIN QueryParam \ DOMAIN m : QueryParam'[o] = QueryParam[o]]_vars

\* a SetQueryParam(s) found two values under a key and left one
C4_Witness ==
    /\ 2 \in replaced
    /\ \E k \in DOMAIN QueryParam : Len(QueryParam[k]) = 1

\* a "%" of s that is not followed by two hexadecimal digits
BadEscape(s) ==
    \E i \in 1..Len(s) :
        s[i] = "%" /\ ~(i + 2 <= Len(s) /\ IsHex(s[i + 1]) /\ IsHex(s[i + 2]))

\* the pending query set q with the values of add appended key by key
WithAppended(q, add) ==
    [k \in DOMAIN q \cup DOMAIN add |-> MapGet(q, k) \o MapGet(add, k)]

\* C5: SetQueryParamsFromValues and SetQueryString (of a string that parses) append each
\* pair they are given, removing nothing; and the query string of the url Execute requests
\* holds every pending pair, the values of a key all there and in order.
C5_AppendedPairsRequested ==
    /\ [](\A req \in request :
             QueryParam # EmptyMap =>
                 /\ Appended(req, lastArgs)[1] = "?"
                 /\ ParseQuery(Tail(Appended(req, lastArgs))).values = QueryParam)
    /\ [][/\ \A m \in ValuesArgs :
                SetQueryParamsFromValues(m) => QueryParam' = WithAppended(QueryParam, m)
          /\ \A q \in QueryStrings :
                SetQueryString(q) /\ ~BadEscape(q) =>
                    QueryParam' = WithAppended(QueryParam, ParseQuery(TrimSpace(q)).values)]_vars

\* an Execute has requested a url for a pending set in which a key holds one value twice
C5_Witness ==
    /\ request # {}
    /\ KeyK \in DOMAIN QueryParam
    /\ QueryParam[KeyK] = <<Val1, Val1>>

\* C6: SetQueryString of a string that does not parse raises no fault and leaves the
\* pending query set as it was, the pairs of the string that do parse included.
C6_MalformedQueryIgnored ==
    [][\A q \in QueryStrings :
          SetQueryString(q) /\ BadEscape(q) => QueryParam' = QueryParam /\ ~panicked']_vars

\* SetQueryString was called with a string whose first pair parses and whose second does
\* not, on a Client with query parameters pending
C6_Witness ==
    /\ lastArgs = << <<"k", "=", "1", "&", "a", "%", "2", "6", "=", "%">> >>
    /\ QueryParam # EmptyMap
    /\ ~panicked

\* the request of the latest Execute carries the body last given to SetBody
BodySent == \A req \in request : req.body = lastBody

C9_NoResponseOnFault ==
    /\ panicked => response = {}
    /\ \A req \in request :
          Result # {} /\ JDecode(ServeHTTP(handler, req).body).err
              => panicked /\ response = {}
    /\ \A r \in response : Result # {} => ~JDecode(r.Body).err

\* an Execute has panicked on a body that is not JSON, a target being registered
C9_Witness ==
    /\ panicked
    /\ Result # {}
    /\ \E req \in request : JDecode(ServeHTTP(handler, req).body).err

\* the characters of a percent-encoded query string
IsEncoded(s) ==
    \A i \in 1..Len(s) : IsAlnum(s[i]) \/ s[i] \in {"-", "_", ".", "~", "%", "+", "&", "="}

\* C10: Execute requests the url it was given when nothing is pending, and otherwise that
\* url, a "?" and the percent-encoded pending query set, whether or not the url given
\* already holds a "?".
C10_QueryConcatenated ==
    \A req \in request :
        LET url == lastArgs[2]
        IN  /\ Len(req.url) >= Len(url)
            /\ SubSeq(req.url, 1, Len(url)) = url
            /\ IF QueryParam = EmptyMap
               THEN req.url = url
               ELSE /\ Appended(req, lastArgs)[1] = "?"
                    /\ IsEncoded(Tail(Appended(req, lastArgs)))
                    /\ ParseQuery(Tail(Appended(req, lastArgs)))
                           = [values |-> QueryParam, err |-> FALSE]

\* an Execute of a url that holds a "?" has requested it with a second "?" part appended
C10_Witness ==
    /\ QueryParam # EmptyMap
    /\ lastArgs = <<MethodGet, HelloPathWithQuery>>
    /\ \E req \in request :
          Cardinality({i \in 1..Len(req.url) : req.url[i] = "?"}) = 2

=============================================================================
